---- MODULE Spec2Model ----
(***************************************************************************)
(* Model of the UTXO pallet of utxo-workshop/runtime/src/utxo.rs: the      *)
(* storage items UtxoStore and RewardTotal, the dispatchable spend, the    *)
(* hook on_finalize, and the helpers validate_transaction, update_storage, *)
(* disperse_rewards and get_simple_transaction.                            *)
(*                                                                         *)
(* Abstractions.                                                           *)
(*  - Value is u128 and ValidTransaction.priority is u64 in the source.    *)
(*    TLC integers are 32 bits wide, so both widths are scaled down and    *)
(*    keep their order: a Value has ValueBits bits, a priority has         *)
(*    PriorityBits < ValueBits bits.  All arithmetic is done at the scaled *)
(*    width (checked_add fails above MaxValue, `as u64` is % 2^Priority-   *)
(*    Bits).                                                               *)
(*  - BlakeTwo256 is modelled as a collision-free hash: the digest is the  *)
(*    preimage itself, tagged with the fields the source hashes.           *)
(*  - An sr25519 signature is the pair (signer, message) plus a nonce      *)
(*    (signing is randomised); it verifies under exactly that signer and   *)
(*    that message.                                                        *)
(***************************************************************************)
EXTENDS Integers, Sequences, FiniteSets, TLC

\* ------------------------------------------------------------------ bounds
MaxGenesis == 2        \* genesis_utxos has at most this many records
MaxInputs == 2         \* inputs of a submitted transaction
MaxOutputs == 2        \* outputs of a submitted transaction
MaxSpends == 2         \* successful spends explored in one behaviour
MaxAuth == 2           \* length of the Aura authority list
MaxBlock == 1          \* largest block number at which on_finalize runs
DeepSpends == 3        \* spends attempted in one behaviour of SpecDeep
ValidateSpends == 1    \* successful spends in one behaviour of SpecValidate
MaxCalls == 4          \* messages sent to the incrementer contract
TwiceSpends == 2       \* successful spends in one behaviour of SpecTwice

\* ------------------------------------------------------- scaled type widths
ValueBits == 3         \* pub type Value = u128
PriorityBits == 2      \* ValidTransaction.priority: u64
IntBits == 3           \* Incrementer.value and the per-caller values: i32
MaxValue == 2^ValueBits - 1
PriorityModulus == 2^PriorityBits
MinInt == -(2^(IntBits - 1))
MaxInt == 2^(IntBits - 1) - 1

\* --------------------------------------------------------------- input sets
Owners == {"A", "B"}                 \* public keys (H256)
GenValues == {0, MaxValue}           \* values of genesis records
OutValues == {0, 1, 4, MaxValue}     \* values of transaction outputs
OutOwners == {"A"}                   \* owners of transaction outputs
DeepValues == {0, 1, 4}              \* output values in SpecDeep
Callers == {"alice", "bob"}          \* AccountIds calling the incrementer
InitValues == {0, MinInt}            \* init_value given to Incrementer::new
AddValues == {-1, 1, MaxInt}         \* add_value given to inc and inc_mine

SeqsUpTo(S, n) == UNION {[1..m -> S] : m \in 0..n}

\* ------------------------------------------------------------- data model
\* SCALE encoding writes the fields of a struct in declaration order and a
\* Vec as its elements in order.
NoTxEnc == << <<>>, <<>> >>
NoOutEnc == <<0, "none">>

\* H512::zero(), and a signature made by `signer` over `msg`.
ZeroSig == [signer |-> "none", msg |-> NoTxEnc, nonce |-> 0]
Sign(signer, msg, nonce) == [signer |-> signer, msg |-> msg, nonce |-> nonce]

\* as sr25519_verify, without binding the signature to the message
sr25519_verify_any_message(sig, msg, pubkey) == sig.signer = pubkey
sr25519_verify(sig, msg, pubkey) == sig.signer = pubkey /\ sig.msg = msg

encode_output(o) == <<o.value, o.pubkey>>
encode_input(i) == <<i.outpoint, i.sigscript>>
encode(tx) ==
    << [j \in 1..Len(tx.inputs) |-> encode_input(tx.inputs[j])],
       [j \in 1..Len(tx.outputs) |-> encode_output(tx.outputs[j])] >>

\* BlakeTwo256::hash_of over the three preimages the pallet hashes:
\* a genesis record, (encoded transaction, index), (reward record, block).
hash_of(txenc, outenc, n) == [tx |-> txenc, out |-> outenc, n |-> n]
hash_of_utxo(u) == hash_of(NoTxEnc, encode_output(u), -1)
hash_of_tx(tx, index) == hash_of(encode(tx), NoOutEnc, index)
hash_of_reward(u, bn) == hash_of(NoTxEnc, encode_output(u), bn)
\* an H256 that is the digest of nothing the pallet hashes
ForeignKey == hash_of(NoTxEnc, NoOutEnc, -1)

NoTx == [inputs |-> <<>>, outputs |-> <<>>]

get_simple_transaction_with_witnesses(transaction) == encode(transaction)

get_simple_transaction(transaction) ==
    LET trx == [transaction EXCEPT !.inputs =
                  [j \in 1..Len(transaction.inputs) |->
                     [transaction.inputs[j] EXCEPT !.sigscript = ZeroSig]]]
    IN  encode(trx)

Range(s) == {s[j] : j \in 1..Len(s)}

\* ------------------------------------------------------------------ state
VARIABLES
    UtxoStore,      \* map H256 => TransactionOutput (present keys only)
    RewardTotal,    \* Value
    pc,             \* "idle": between calls; "returned": a call has returned;
                    \* "panicked": the runtime aborted
    call,           \* the call that returned last
    result,         \* its DispatchResult: "Ok" or the error string
    event,          \* the transaction of the TransactionSuccess it deposited
    valid,          \* what validate_transaction returned in that call
    pre_store,      \* UtxoStore when that call started
    pre_reward,     \* RewardTotal when that call started
    pre_spent,      \* `spent` when that call started
    spent,          \* keys removed from UtxoStore by successful spends
    nspends,        \* number of successful spends
    genesis,        \* UtxoStore as built at genesis
    value,          \* Incrementer.value
    my_value,       \* Incrementer.my_value (present keys only)
    overflow_checks,\* whether the contract was built with overflow checks
    inc_call,       \* the last message sent to the incrementer
    inc_ret,        \* what it returned, or that it trapped
    pre_value,      \* value when that message arrived
    pre_my_value,   \* my_value when that message arrived
    mine_log,       \* per caller, the arguments of its inc_mine messages
    ncalls          \* number of messages sent to the incrementer

vars == <<UtxoStore, RewardTotal, pc, call, result, event, valid,
          pre_store, pre_reward, pre_spent, spent, nspends, genesis,
          value, my_value, overflow_checks, inc_call, inc_ret,
          pre_value, pre_my_value, mine_log, ncalls>>

incvars == <<value, my_value, overflow_checks, inc_call, inc_ret,
             pre_value, pre_my_value, mine_log, ncalls>>

NoCall == [op |-> "none", tx |-> NoTx, auth |-> <<>>, block |-> 0]

\* ------------------------------------------------- incrementer: data model
\* a + b on i32: whether it leaves the type, and the two's complement result
add_i32(a, b) ==
    [overflow |-> a + b < MinInt \/ a + b > MaxInt,
     wrapped |-> ((a + b - MinInt) % 2^IntBits) + MinInt]

EmptyMap == [c \in {} |-> 0]
NoMessage == [op |-> "none", caller |-> "none", add_value |-> 0]
Returned(v) == [trap |-> FALSE, val |-> v]
Trapped == [trap |-> TRUE, val |-> 0]

\* *self.my_value.get(of).unwrap_or(&0)
my_value_or_zero(m, who) == IF who \in DOMAIN m THEN m[who] ELSE 0

get == value
get_mine(caller) == my_value_or_zero(my_value, caller)

\* the state the two constructors leave, before any message
Constructed(v) ==
    /\ value = v
    /\ my_value = EmptyMap
    /\ inc_call = NoMessage
    /\ inc_ret = Returned(0)
    /\ pre_value = v
    /\ pre_my_value = EmptyMap
    /\ mine_log = [c \in Callers |-> <<>>]
    /\ ncalls = 0

new(init_value) == Constructed(init_value)
default == Constructed(0)

\* ---------------------------------------------------- validate_transaction
\* as Accept, with the two key lists in each other's field
Accept_swapped(requires, provides, priority) ==
    [err |-> "", requires |-> provides, provides |-> requires, priority |-> priority]
Accept(requires, provides, priority) ==
    [err |-> "", requires |-> requires, provides |-> provides, priority |-> priority]
Reject(msg) ==
    [err |-> msg, requires |-> <<>>, provides |-> <<>>, priority |-> 0]

NoDescriptor == Reject("none")

\* for input in transaction.inputs.iter() { ... }
RECURSIVE input_loop(_, _, _, _, _)
input_loop(transaction, store, i, total_input, missing_utxos) ==
    IF i > Len(transaction.inputs)
    THEN [err |-> "", total |-> total_input, missing |-> missing_utxos]
    ELSE LET input == transaction.inputs[i] IN
         IF input.outpoint \in DOMAIN store
         THEN LET input_utxo == store[input.outpoint] IN
              IF ~sr25519_verify(input.sigscript,
                                 get_simple_transaction(transaction),
                                 input_utxo.pubkey)
              THEN [err |-> "signature must be valid", total |-> 0, missing |-> <<>>]
              ELSE IF total_input + input_utxo.value > MaxValue
              THEN [err |-> "input value overflow", total |-> 0, missing |-> <<>>]
              ELSE input_loop(transaction, store, i + 1,
                              total_input + input_utxo.value, missing_utxos)
         ELSE input_loop(transaction, store, i + 1, total_input,
                         Append(missing_utxos, input.outpoint))

\* ensure!(output.value > 0, ...)
output_value_ok_or_zero(output) == output.value >= 0
output_value_ok(output) == output.value > 0

\* for output in transaction.outputs.iter() { ... }; output_index is i - 1
RECURSIVE output_loop(_, _, _, _, _)
output_loop(transaction, store, i, total_output, new_utxos) ==
    IF i > Len(transaction.outputs)
    THEN [err |-> "", total |-> total_output, new |-> new_utxos]
    ELSE LET output == transaction.outputs[i]
             hash == hash_of_tx(transaction, i - 1)
         IN  IF ~output_value_ok(output)
             THEN [err |-> "Output value must be nonzero", total |-> 0, new |-> <<>>]
             ELSE IF hash \in DOMAIN store
             THEN [err |-> "output already exists", total |-> 0, new |-> <<>>]
             ELSE IF total_output + output.value > MaxValue
             THEN [err |-> "output value overflow", total |-> 0, new |-> <<>>]
             ELSE output_loop(transaction, store, i + 1,
                              total_output + output.value, Append(new_utxos, hash))

\* the BTreeMap keyed on the records is shorter than the Vec
has_duplicates_never(records) == Cardinality(Range(records)) > Len(records)
has_duplicates(records) == Cardinality(Range(records)) # Len(records)

validate_transaction(transaction, store) ==
    IF transaction.inputs = <<>> THEN Reject("No inputs")
    ELSE IF transaction.outputs = <<>> THEN Reject("No outputs")
    ELSE IF has_duplicates(transaction.inputs)
    THEN Reject("each input must only be used once")
    ELSE IF has_duplicates(transaction.outputs)
    THEN Reject("each output must only be used once")
    ELSE LET ins == input_loop(transaction, store, 1, 0, <<>>) IN
         IF ins.err # "" THEN Reject(ins.err)
         ELSE LET outs == output_loop(transaction, store, 1, 0, <<>>) IN
              IF outs.err # "" THEN Reject(outs.err)
              ELSE IF ins.missing = <<>>
              THEN IF ~(ins.total >= outs.total)
                   THEN Reject("output value mustr not exceed input value")
                   ELSE Accept(ins.missing, outs.new,
                               (ins.total - outs.total) % PriorityModulus)
              ELSE Accept(ins.missing, outs.new, 0)

\* --------------------------------------------------------- update_storage
RECURSIVE remove_inputs(_, _, _)
remove_inputs(transaction, store, i) ==
    IF i > Len(transaction.inputs) THEN store
    ELSE remove_inputs(transaction,
            [k \in DOMAIN store \ {transaction.inputs[i].outpoint} |-> store[k]],
            i + 1)

\* as insert_outputs, with index incremented before the key is hashed
RECURSIVE insert_outputs_next_index(_, _, _)
insert_outputs_next_index(transaction, store, i) ==
    IF i > Len(transaction.outputs) THEN store
    ELSE LET hash == hash_of_tx(transaction, i) IN
         insert_outputs_next_index(transaction,
            [k \in DOMAIN store \cup {hash} |->
                IF k = hash THEN transaction.outputs[i] ELSE store[k]],
            i + 1)

RECURSIVE insert_outputs(_, _, _)
insert_outputs(transaction, store, i) ==
    IF i > Len(transaction.outputs) THEN store
    ELSE LET hash == hash_of_tx(transaction, i - 1) IN
         insert_outputs(transaction,
            [k \in DOMAIN store \cup {hash} |->
                IF k = hash THEN transaction.outputs[i] ELSE store[k]],
            i + 1)

\* as update_storage, with the overflow check after the store was written
update_storage_late_check(transaction, reward, store, total) ==
    LET written == insert_outputs(transaction,
                      remove_inputs(transaction, store, 1), 1)
    IN  IF total + reward > MaxValue
        THEN [err |-> "reward overflow", store |-> written, total |-> total]
        ELSE [err |-> "", store |-> written, total |-> total + reward]

update_storage(transaction, reward, store, total) ==
    IF total + reward > MaxValue
    THEN [err |-> "reward overflow", store |-> store, total |-> total]
    ELSE [err |-> "",
          store |-> insert_outputs(transaction,
                       remove_inputs(transaction, store, 1), 1),
          total |-> total + reward]

\* -------------------------------------------------------- disperse_rewards
RECURSIVE reward_loop(_, _, _, _, _)
reward_loop(authorities, share_value, bn, store, i) ==
    IF i > Len(authorities) THEN store
    ELSE LET utxo == [value |-> share_value, pubkey |-> authorities[i]]
             hash == hash_of_reward(utxo, bn)
         IN  reward_loop(authorities, share_value, bn,
                IF hash \in DOMAIN store
                THEN [store EXCEPT ![hash] = utxo]
                ELSE store,
                i + 1)

disperse_rewards(authorities, bn, store, total) ==
    LET reward == total IN          \* <RewardTotal>::take() leaves 0
    IF Len(authorities) = 0
    THEN [panic |-> TRUE, store |-> store, total |-> 0]
    ELSE LET share_value == reward \div Len(authorities) IN
         IF share_value = 0
         THEN [panic |-> FALSE, store |-> store, total |-> 0]
         ELSE LET remainder == reward - share_value * Len(authorities) IN
              [panic |-> FALSE,
               store |-> reward_loop(authorities, share_value, bn, store, 1),
               total |-> remainder]

\* ---------------------------------------------------------------- genesis
RECURSIVE genesis_build(_, _, _)
genesis_build(genesis_utxos, store, i) ==
    IF i > Len(genesis_utxos) THEN store
    ELSE LET u == genesis_utxos[i]
             h == hash_of_utxo(u)
         IN  genesis_build(genesis_utxos,
                [k \in DOMAIN store \cup {h} |-> IF k = h THEN u ELSE store[k]],
                i + 1)

EmptyStore == [k \in {} |-> NoOutEnc]

GenesisOutputs == [value : GenValues, pubkey : Owners]

Init ==
    /\ \E genesis_utxos \in SeqsUpTo(GenesisOutputs, MaxGenesis) :
          UtxoStore = genesis_build(genesis_utxos, EmptyStore, 1)
    /\ RewardTotal = 0
    /\ pc = "idle"
    /\ call = NoCall
    /\ result = "none"
    /\ event = NoTx
    /\ valid = NoDescriptor
    /\ pre_store = UtxoStore
    /\ pre_reward = 0
    /\ pre_spent = {}
    /\ spent = {}
    /\ nspends = 0
    /\ genesis = UtxoStore
    /\ overflow_checks = TRUE
    /\ default

\* ------------------------------------------------ submitted transactions
\* Outpoints a submitted transaction may name: the present keys, the keys
\* already spent, and one key that was never in the store.
Outpoints == DOMAIN UtxoStore \cup spent \cup {ForeignKey}

OutputRecords == [value : OutValues, pubkey : OutOwners]

\* The transaction over outpoints `ops` and outputs `outs` in which input j
\* carries the witness ws[j].
MakeTx(ops, ws, outs) ==
    [inputs |-> [j \in 1..Len(ops) |-> [outpoint |-> ops[j], sigscript |-> ws[j]]],
     outputs |-> outs]

\* What a signer signs: the encoding of the transaction with zero witnesses.
SigningPayload(ops, outs) ==
    encode(MakeTx(ops, [j \in 1..Len(ops) |-> ZeroSig], outs))

\* The owner recorded for an outpoint; "A" signs for an absent one.
OwnerOf(k) == IF k \in DOMAIN UtxoStore THEN UtxoStore[k].pubkey ELSE "A"

\* Witnesses tried on an input: none, a signature over another message, and
\* a signature of each key over the transaction.  Transactions with several
\* inputs are signed on every input.
Witnesses(n, msg) ==
    IF n = 1
    THEN {ZeroSig, Sign("A", NoTxEnc, 0)} \cup {Sign(o, msg, 0) : o \in Owners}
    ELSE {Sign(o, msg, 0) : o \in Owners}

\* Any input list, with one plain output or with one output of value 0.
ProbeOutputs == {<<[value |-> v, pubkey |-> "A"]>> : v \in {0, 1}}

InputProbes ==
    UNION { LET msg == SigningPayload(ops, outs)
            IN  { MakeTx(ops, ws, outs) :
                     ws \in [1..Len(ops) -> Witnesses(Len(ops), msg)] } :
            ops \in SeqsUpTo(Outpoints, MaxInputs), outs \in ProbeOutputs }

\* One input signed by its owner, with any output list.
OutputProbes ==
    { LET ops == <<k>>
          msg == SigningPayload(ops, outs)
      IN  MakeTx(ops, <<Sign(OwnerOf(k), msg, 0)>>, outs) :
      k \in Outpoints, outs \in SeqsUpTo(OutputRecords, MaxOutputs) }

Transactions == InputProbes \cup OutputProbes

\* ----------------------------------------------------------------- spend
spend(transaction) ==
    /\ pc = "idle"
    /\ LET valid_transaction == validate_transaction(transaction, UtxoStore)
           upd == update_storage(transaction, valid_transaction.priority,
                                 UtxoStore, RewardTotal)
       IN  /\ call' = [op |-> "spend", tx |-> transaction, auth |-> <<>>, block |-> 0]
           /\ valid' = valid_transaction
           /\ pre_store' = UtxoStore
           /\ pre_reward' = RewardTotal
           /\ pre_spent' = spent
           /\ pc' = "returned"
           /\ UNCHANGED genesis
           /\ IF valid_transaction.err # ""
              THEN /\ result' = valid_transaction.err
                   /\ UNCHANGED <<UtxoStore, RewardTotal, event, spent, nspends>>
              ELSE IF upd.err # ""
              THEN \* the `?` returns early; what update_storage wrote stays
                   /\ result' = upd.err
                   /\ UtxoStore' = upd.store
                   /\ RewardTotal' = upd.total
                   /\ UNCHANGED <<event, spent, nspends>>
              ELSE /\ UtxoStore' = upd.store
                   /\ RewardTotal' = upd.total
                   /\ event' = transaction
                   /\ result' = "Ok"
                   /\ spent' = spent \cup
                        (DOMAIN UtxoStore \cap
                           {transaction.inputs[j].outpoint :
                               j \in 1..Len(transaction.inputs)})
                   /\ nspends' = nspends + 1

\* ---------------------------------------- validate_transaction, on its own
\* as validate, applying the transaction it accepted
validate_and_apply(transaction) ==
    /\ pc = "idle"
    /\ LET valid_transaction == validate_transaction(transaction, UtxoStore)
           upd == update_storage(transaction, valid_transaction.priority,
                                 UtxoStore, RewardTotal)
       IN  /\ call' = [op |-> "validate_transaction", tx |-> transaction,
                       auth |-> <<>>, block |-> 0]
           /\ valid' = valid_transaction
           /\ result' = IF valid_transaction.err = "" THEN "Ok"
                                                      ELSE valid_transaction.err
           /\ UtxoStore' = IF valid_transaction.err = "" THEN upd.store ELSE UtxoStore
           /\ pre_store' = UtxoStore
           /\ pre_reward' = RewardTotal
           /\ pre_spent' = spent
           /\ pc' = "returned"
           /\ UNCHANGED <<RewardTotal, event, spent, nspends, genesis>>

\* The public function called on the current storage, as a transaction pool
\* does: it reads UtxoStore and writes nothing.
validate(transaction) ==
    /\ pc = "idle"
    /\ LET valid_transaction == validate_transaction(transaction, UtxoStore)
       IN  /\ call' = [op |-> "validate_transaction", tx |-> transaction,
                       auth |-> <<>>, block |-> 0]
           /\ valid' = valid_transaction
           /\ result' = IF valid_transaction.err = "" THEN "Ok"
                                                      ELSE valid_transaction.err
           /\ pre_store' = UtxoStore
           /\ pre_reward' = RewardTotal
           /\ pre_spent' = spent
           /\ pc' = "returned"
           /\ UNCHANGED <<UtxoStore, RewardTotal, event, spent, nspends, genesis>>

\* ------------------------------------------------------------ on_finalize
on_finalize(authorities, bn) ==
    /\ pc = "idle"
    /\ LET d == disperse_rewards(authorities, bn, UtxoStore, RewardTotal) IN
       /\ call' = [op |-> "on_finalize", tx |-> NoTx, auth |-> authorities, block |-> bn]
       /\ pre_store' = UtxoStore
       /\ pre_reward' = RewardTotal
       /\ pre_spent' = spent
       /\ UtxoStore' = d.store
       /\ RewardTotal' = d.total
       /\ pc' = IF d.panic THEN "panicked" ELSE "returned"
       /\ result' = IF d.panic THEN "panic" ELSE "Ok"
       /\ valid' = NoDescriptor
       /\ UNCHANGED <<event, spent, nspends, genesis>>

\* the host takes the result of the call and goes on to the next one
Return ==
    /\ pc = "returned"
    /\ pc' = "idle"
    /\ call' = NoCall
    /\ result' = "none"
    /\ event' = NoTx
    /\ valid' = NoDescriptor
    /\ pre_store' = UtxoStore
    /\ pre_reward' = RewardTotal
    /\ pre_spent' = spent
    /\ UNCHANGED <<UtxoStore, RewardTotal, spent, nspends, genesis>>
    /\ UNCHANGED incvars

\* a user submits the extrinsic spend
Spend ==
    /\ pc = "idle"
    /\ nspends < MaxSpends
    /\ \E transaction \in Transactions : spend(transaction)
    /\ UNCHANGED incvars

\* the block ends: the host runs on_finalize with Aura's authority list
Finalize ==
    /\ pc = "idle"
    /\ \E authorities \in SeqsUpTo(Owners, MaxAuth), bn \in 0..MaxBlock :
          on_finalize(authorities, bn)
    /\ UNCHANGED incvars

Next == Spend \/ Finalize \/ Return

Spec == Init /\ [][Next]_vars

\* ------------------------------------- validation without application
\* a transaction pool validates a transaction against the current storage
Validate ==
    /\ pc = "idle"
    /\ \E transaction \in Transactions : validate(transaction)
    /\ UNCHANGED incvars

\* spend, followed for ValidateSpends successful spends
ValidateSpend ==
    /\ pc = "idle"
    /\ nspends < ValidateSpends
    /\ \E transaction \in Transactions : spend(transaction)
    /\ UNCHANGED incvars

NextValidate == ValidateSpend \/ Validate \/ Finalize \/ Return

SpecValidate == Init /\ [][NextValidate]_vars

\* ------------------------------------------------ longer chains of spends
\* One input, unsigned or signed by its owner, and one output: few enough
\* transactions to follow DeepSpends spends in a row.
DeepTransactions ==
    { LET ops == <<k>>
          outs == <<[value |-> v, pubkey |-> "A"]>>
          msg == SigningPayload(ops, outs)
      IN  MakeTx(ops, <<IF signed THEN Sign(OwnerOf(k), msg, 0) ELSE ZeroSig>>, outs) :
      k \in Outpoints, v \in DeepValues, signed \in BOOLEAN }

DeepSpend ==
    /\ pc = "idle"
    /\ nspends < DeepSpends
    /\ \E transaction \in DeepTransactions : spend(transaction)
    /\ UNCHANGED incvars

NextDeep == DeepSpend \/ Finalize \/ Return

SpecDeep == Init /\ [][NextDeep]_vars

\* ------------------------------------- several inputs on stored outputs
\* One or two inputs, each naming a key of the store and carrying a fresh
\* signature of that key's owner over the transaction, and one output.
\* sr25519 signing is randomised, so the owner's signatures all differ.
TwiceTransactions ==
    { LET outs == <<[value |-> v, pubkey |-> "A"]>>
          msg == SigningPayload(ops, outs)
      IN  MakeTx(ops, [j \in 1..Len(ops) |-> Sign(OwnerOf(ops[j]), msg, j - 1)], outs) :
      ops \in SeqsUpTo(DOMAIN UtxoStore, MaxInputs) \ {<<>>}, v \in {1, 4} }

TwiceSpend ==
    /\ pc = "idle"
    /\ nspends < TwiceSpends
    /\ \E transaction \in TwiceTransactions : spend(transaction)
    /\ UNCHANGED incvars

NextTwice == TwiceSpend \/ Finalize \/ Return

SpecTwice == Init /\ [][NextTwice]_vars

\* ---------------------------------------------------- incrementer contract
ledgervars == <<UtxoStore, RewardTotal, pc, call, result, event, valid,
                pre_store, pre_reward, pre_spent, spent, nspends, genesis>>

\* what every message does before its body runs
Received(op, caller, add_value) ==
    /\ inc_call' = [op |-> op, caller |-> caller, add_value |-> add_value]
    /\ pre_value' = value
    /\ pre_my_value' = my_value
    /\ ncalls' = ncalls + 1
    /\ UNCHANGED overflow_checks

\* as inc_mine, adding to the shared value as well
inc_mine_and_inc(caller, add_value) ==
    LET caller_value == my_value_or_zero(my_value, caller)
        sum == add_i32(caller_value, add_value)
    IN  /\ Received("inc_mine", caller, add_value)
        /\ mine_log' = [mine_log EXCEPT ![caller] = Append(@, add_value)]
        /\ IF sum.overflow /\ overflow_checks
           THEN /\ inc_ret' = Trapped
                /\ UNCHANGED <<value, my_value>>
           ELSE /\ my_value' = (caller :> sum.wrapped) @@ my_value
                /\ inc_ret' = Returned(0)
                /\ value' = add_i32(value, add_value).wrapped

\* pub fn inc_mine(&mut self, add_value: i32).  An overflowing addition
\* panics in a build with overflow checks, which traps the contract and
\* reverts its storage, and wraps in a build without them.
inc_mine(caller, add_value) ==
    LET caller_value == my_value_or_zero(my_value, caller)
        sum == add_i32(caller_value, add_value)
    IN  /\ Received("inc_mine", caller, add_value)
        /\ mine_log' = [mine_log EXCEPT ![caller] = Append(@, add_value)]
        /\ IF sum.overflow /\ overflow_checks
           THEN /\ inc_ret' = Trapped
                /\ UNCHANGED <<value, my_value>>
           ELSE /\ my_value' = (caller :> sum.wrapped) @@ my_value
                /\ inc_ret' = Returned(0)
                /\ UNCHANGED value

\* pub fn inc(&mut self, add_value: i32)
inc(caller, add_value) ==
    LET sum == add_i32(value, add_value)
    IN  /\ Received("inc", caller, add_value)
        /\ IF sum.overflow /\ overflow_checks
           THEN /\ inc_ret' = Trapped
                /\ UNCHANGED <<value, my_value, mine_log>>
           ELSE /\ value' = sum.wrapped
                /\ inc_ret' = Returned(0)
                /\ UNCHANGED <<my_value, mine_log>>

Inc ==
    /\ ncalls < MaxCalls
    /\ \E caller \in Callers, add_value \in AddValues : inc(caller, add_value)
    /\ UNCHANGED ledgervars

IncMine ==
    /\ ncalls < MaxCalls
    /\ \E caller \in Callers, add_value \in AddValues : inc_mine(caller, add_value)
    /\ UNCHANGED ledgervars

\* pub fn get(&self) -> i32
Get ==
    /\ ncalls < MaxCalls
    /\ \E caller \in Callers :
          /\ Received("get", caller, 0)
          /\ inc_ret' = Returned(get)
    /\ UNCHANGED <<value, my_value, mine_log>>
    /\ UNCHANGED ledgervars

\* pub fn get_mine(&self) -> i32
GetMine ==
    /\ ncalls < MaxCalls
    /\ \E caller \in Callers :
          /\ Received("get_mine", caller, 0)
          /\ inc_ret' = Returned(get_mine(caller))
    /\ UNCHANGED <<value, my_value, mine_log>>
    /\ UNCHANGED ledgervars

\* the contract is instantiated with either constructor, in either build;
\* the ledger is not part of this system and stays as an empty genesis
\* leaves it
InitIncrementer ==
    /\ UtxoStore = EmptyStore
    /\ RewardTotal = 0
    /\ pc = "idle"
    /\ call = NoCall
    /\ result = "none"
    /\ event = NoTx
    /\ valid = NoDescriptor
    /\ pre_store = EmptyStore
    /\ pre_reward = 0
    /\ pre_spent = {}
    /\ spent = {}
    /\ nspends = 0
    /\ genesis = EmptyStore
    /\ overflow_checks \in BOOLEAN
    /\ \/ default
       \/ \E init_value \in InitValues : new(init_value)

NextIncrementer == Inc \/ IncMine \/ Get \/ GetMine

SpecIncrementer == InitIncrementer /\ [][NextIncrementer]_vars

\* ================================================================ claims
\* What the formulas below read off a returned call.
SpendReturned == pc = "returned" /\ call.op = "spend"
FinalizeReturned == pc # "idle" /\ call.op = "on_finalize"

InputKeys(tx) == {tx.inputs[j].outpoint : j \in 1..Len(tx.inputs)}
OutputKeys(tx) == {hash_of_tx(tx, j - 1) : j \in 1..Len(tx.outputs)}
MissingInputs(tx, store) == InputKeys(tx) \ DOMAIN store

RECURSIVE SumOutputs(_, _)
SumOutputs(tx, i) ==
    IF i > Len(tx.outputs) THEN 0 ELSE tx.outputs[i].value + SumOutputs(tx, i + 1)

RECURSIVE SumInputs(_, _, _)
SumInputs(tx, store, i) ==
    IF i > Len(tx.inputs) THEN 0
    ELSE store[tx.inputs[i].outpoint].value + SumInputs(tx, store, i + 1)

\* C1: a spend of a transaction with an input whose outpoint is absent from
\* the store inserts nothing, removes nothing and leaves the reward pool.
C1_MissingInputNoEffect ==
    (SpendReturned /\ MissingInputs(call.tx, pre_store) # {})
        => (UtxoStore = pre_store /\ RewardTotal = pre_reward)

\* C2: no double spend: a spend of a transaction with an input naming a key
\* that an earlier successful spend removed does not return Ok and deposits
\* no TransactionSuccess.
C2_NoDoubleSpend ==
    (SpendReturned /\ InputKeys(call.tx) \cap pre_spent # {})
        => (result # "Ok" /\ event = NoTx)

\* C3: conservation: after a successful spend with no missing inputs, the
\* fee credited to the pool is the consumed value minus the produced value:
\* sum(outputs) + fee = sum(consumed entries), RewardTotal = before + fee.
C3_Conservation ==
    (SpendReturned /\ result = "Ok" /\ MissingInputs(call.tx, pre_store) = {})
        => LET fee == RewardTotal - pre_reward IN
           /\ fee >= 0
           /\ SumOutputs(call.tx, 1) + fee = SumInputs(call.tx, pre_store, 1)

\* C4: after a successful spend whose inputs were all present, every input
\* outpoint is absent, output i is stored under H(encode(tx), i), and every
\* other key is as it was.
C4_SpendEffect ==
    (SpendReturned /\ result = "Ok" /\ MissingInputs(call.tx, pre_store) = {})
        => /\ InputKeys(call.tx) \cap DOMAIN UtxoStore = {}
           /\ \A j \in 1..Len(call.tx.outputs) :
                 /\ hash_of_tx(call.tx, j - 1) \in DOMAIN UtxoStore
                 /\ UtxoStore[hash_of_tx(call.tx, j - 1)] = call.tx.outputs[j]
           /\ \A k \in (DOMAIN UtxoStore \cup DOMAIN pre_store)
                          \ (InputKeys(call.tx) \cup OutputKeys(call.tx)) :
                 /\ k \in DOMAIN UtxoStore
                 /\ k \in DOMAIN pre_store
                 /\ UtxoStore[k] = pre_store[k]

C4_Witness ==
    /\ SpendReturned
    /\ result = "Ok"
    /\ MissingInputs(call.tx, pre_store) = {}
    /\ Len(call.tx.outputs) = 2
    /\ DOMAIN pre_store \ InputKeys(call.tx) # {}

\* C5: a spend that returns an error, from validation or from the updater,
\* leaves the store and the reward pool as they were.
C5_ErrorNoEffect ==
    (SpendReturned /\ result # "Ok")
        => (UtxoStore = pre_store /\ RewardTotal = pre_reward)

C5_Witness ==
    /\ SpendReturned
    /\ result = "reward overflow"
    /\ validate_transaction(call.tx, pre_store).err = ""

\* C6: a transaction with two equal input records or two equal output
\* records is rejected by validate_transaction and by spend.
HasEqualPair(records) ==
    \E i, j \in 1..Len(records) : i < j /\ records[i] = records[j]

C6_DuplicatesRejected ==
    (SpendReturned /\ (HasEqualPair(call.tx.inputs) \/ HasEqualPair(call.tx.outputs)))
        => /\ result # "Ok"
           /\ validate_transaction(call.tx, pre_store).err # ""
           /\ UtxoStore = pre_store

C6_Witness ==
    /\ SpendReturned
    /\ HasEqualPair(call.tx.inputs)
    /\ InputKeys(call.tx) \subseteq DOMAIN pre_store
    /\ sr25519_verify(call.tx.inputs[1].sigscript,
                      get_simple_transaction(call.tx),
                      pre_store[call.tx.inputs[1].outpoint].pubkey)
    /\ result = "each input must only be used once"

\* C7: on_finalize with an empty authority list completes without a
\* division fault or abort, leaves the pool at 0 and the store unchanged.
C7_EmptyAuthoritiesSafe ==
    (FinalizeReturned /\ call.auth = <<>>)
        => (result = "Ok" /\ RewardTotal = 0 /\ UtxoStore = pre_store)

\* C8: on_finalize with N > 0 authorities and pool R leaves the pool at
\* remainder = R - (R / N) * N, also when R / N is 0.
C8_RemainderKept ==
    (FinalizeReturned /\ Len(call.auth) > 0)
        => LET share == pre_reward \div Len(call.auth)
               remainder == pre_reward - share * Len(call.auth)
           IN  /\ Len(call.auth) * share + remainder = pre_reward
               /\ RewardTotal = remainder

\* C9: on_finalize with N > 0 and share = R / N > 0 stores the record
\* {share, authority} under H(encode(record), block) for every authority
\* whose key was absent before the call.
C9_RewardsInserted ==
    (FinalizeReturned /\ Len(call.auth) > 0
        /\ pre_reward \div Len(call.auth) > 0)
        => \A j \in 1..Len(call.auth) :
              LET utxo == [value |-> pre_reward \div Len(call.auth),
                           pubkey |-> call.auth[j]]
                  hash == hash_of_reward(utxo, call.block)
              IN  hash \notin DOMAIN pre_store
                     => (hash \in DOMAIN UtxoStore /\ UtxoStore[hash] = utxo)

\* C10 as stated: in every reachable state, from any genesis list, every
\* entry of the store has a value greater than 0.
C10_AllValuesPositive ==
    \A k \in DOMAIN UtxoStore : UtxoStore[k].value > 0

\* C10 as amended: from a genesis list whose records all have a value
\* greater than 0, every entry of the store has a value greater than 0.
C10_PositiveFromPositiveGenesis ==
    (\A k \in DOMAIN genesis : genesis[k].value > 0)
        => \A k \in DOMAIN UtxoStore : UtxoStore[k].value > 0

C10_Witness ==
    /\ SpendReturned
    /\ result = "Ok"
    /\ \A k \in DOMAIN genesis : genesis[k].value > 0
    /\ OutputKeys(call.tx) \subseteq DOMAIN UtxoStore
    /\ \E j \in 1..Len(call.tx.outputs) : call.tx.outputs[j].value = 1

\* C11: each store key is created at most once: no spend and no on_finalize
\* writes to a key that is present, and a key that a spend removed is never
\* inserted again.
C11_CreatedOnce ==
    (pc # "idle" /\ call.op \in {"spend", "on_finalize"})
        => /\ \A k \in DOMAIN pre_store \cap DOMAIN UtxoStore :
                 UtxoStore[k] = pre_store[k]
           /\ (call.op = "spend" /\ result = "Ok")
                 => OutputKeys(call.tx) \cap DOMAIN pre_store = {}
           /\ (DOMAIN UtxoStore \ DOMAIN pre_store) \cap pre_spent = {}

\* The canonical form of tx written out: its outpoints with zero witnesses
\* and its outputs, encoded.
CanonicalForm(tx) ==
    SigningPayload([j \in 1..Len(tx.inputs) |-> tx.inputs[j].outpoint], tx.outputs)

\* Input j of tx carries a signature of `owner` over the canonical form of tx.
Authorizes(tx, j, owner) ==
    /\ tx.inputs[j].sigscript.signer = owner
    /\ tx.inputs[j].sigscript.msg = CanonicalForm(tx)

\* C12: spend removes a store entry only if the transaction has an input for
\* it whose witness is a signature of the entry's owner over the canonical
\* form of that transaction; a transaction with a present input whose
\* witness does not verify is rejected and removes nothing.
C12_SpendAuthorized ==
    SpendReturned
        => /\ \A k \in DOMAIN pre_store \ DOMAIN UtxoStore :
                 \E j \in 1..Len(call.tx.inputs) :
                    /\ call.tx.inputs[j].outpoint = k
                    /\ Authorizes(call.tx, j, pre_store[k].pubkey)
           /\ (\E j \in 1..Len(call.tx.inputs) :
                  /\ call.tx.inputs[j].outpoint \in DOMAIN pre_store
                  /\ ~Authorizes(call.tx, j,
                                 pre_store[call.tx.inputs[j].outpoint].pubkey))
                 => (result # "Ok" /\ UtxoStore = pre_store)

C12_Witness ==
    /\ SpendReturned
    /\ Len(call.tx.inputs) = 1
    /\ call.tx.inputs[1].outpoint \in DOMAIN pre_store
    /\ call.tx.inputs[1].sigscript.signer
          = pre_store[call.tx.inputs[1].outpoint].pubkey
    /\ call.tx.inputs[1].sigscript.msg # CanonicalForm(call.tx)
    /\ result = "signature must be valid"
    /\ UtxoStore = pre_store

\* A call that ran validate_transaction: spend, or the function on its own.
Validated == pc = "returned" /\ call.op \in {"spend", "validate_transaction"}

OutpointsOf(tx) == [j \in 1..Len(tx.inputs) |-> tx.inputs[j].outpoint]

RECURSIVE SumPresentInputs(_, _, _)
SumPresentInputs(tx, store, i) ==
    IF i > Len(tx.inputs) THEN 0
    ELSE (IF tx.inputs[i].outpoint \in DOMAIN store
          THEN store[tx.inputs[i].outpoint].value ELSE 0)
         + SumPresentInputs(tx, store, i + 1)

\* tx is non-empty, has no duplicate records, valid signatures on its
\* present inputs, nonzero outputs under absent keys, and a missing input.
WellFormedWithMissing(tx, store) ==
    /\ tx.inputs # <<>>
    /\ tx.outputs # <<>>
    /\ ~HasEqualPair(tx.inputs)
    /\ ~HasEqualPair(tx.outputs)
    /\ \A j \in 1..Len(tx.inputs) :
          tx.inputs[j].outpoint \in DOMAIN store
             => Authorizes(tx, j, store[tx.inputs[j].outpoint].pubkey)
    /\ \A j \in 1..Len(tx.outputs) :
          /\ tx.outputs[j].value > 0
          /\ hash_of_tx(tx, j - 1) \notin DOMAIN store
    /\ MissingInputs(tx, store) # {}

\* requires is the absent outpoints in input order, provides the output
\* keys in output order, and the priority is 0.
DependencyDescriptor(d, tx, store) ==
    /\ d.err = ""
    /\ d.requires = SelectSeq(OutpointsOf(tx), LAMBDA k : k \notin DOMAIN store)
    /\ d.provides = [j \in 1..Len(tx.outputs) |-> hash_of_tx(tx, j - 1)]
    /\ d.priority = 0

\* C13 as stated: validate_transaction accepts every such transaction with
\* that descriptor.
C13_MissingInputAccepted ==
    (Validated /\ WellFormedWithMissing(call.tx, pre_store))
        => DependencyDescriptor(valid, call.tx, pre_store)

\* C13 as amended: it does so when, in addition, neither the values of the
\* present inputs nor the values of the outputs overflow the Value type.
C13_MissingInputAcceptedNoOverflow ==
    (Validated /\ WellFormedWithMissing(call.tx, pre_store)
        /\ SumPresentInputs(call.tx, pre_store, 1) <= MaxValue
        /\ SumOutputs(call.tx, 1) <= MaxValue)
        => DependencyDescriptor(valid, call.tx, pre_store)

C13_Witness ==
    /\ pc = "returned"
    /\ call.op = "validate_transaction"
    /\ WellFormedWithMissing(call.tx, pre_store)
    /\ Len(call.tx.inputs) = 2
    /\ call.tx.inputs[1].outpoint \in DOMAIN pre_store
    /\ pre_store[call.tx.inputs[1].outpoint].value > 1
    /\ valid.err = ""
    /\ valid.requires = <<call.tx.inputs[2].outpoint>>

\* C14: validate_transaction changes neither the store nor the reward pool,
\* whether it accepts (with or without missing inputs) or rejects.
C14_ValidateReadsOnly ==
    (pc = "returned" /\ call.op = "validate_transaction")
        => (UtxoStore = pre_store /\ RewardTotal = pre_reward)

C14_Witness ==
    /\ pc = "returned"
    /\ call.op = "validate_transaction"
    /\ valid.err = ""
    /\ valid.requires = <<>>
    /\ InputKeys(call.tx) \subseteq DOMAIN UtxoStore
    /\ OutputKeys(call.tx) \cap DOMAIN UtxoStore = {}

ContainsZeroOutput(tx) == \E j \in 1..Len(tx.outputs) : tx.outputs[j].value = 0

\* tx is non-empty, has no duplicate records and valid signatures on its
\* present inputs.
WellFormedInputs(tx, store) ==
    /\ tx.inputs # <<>>
    /\ tx.outputs # <<>>
    /\ ~HasEqualPair(tx.inputs)
    /\ ~HasEqualPair(tx.outputs)
    /\ \A j \in 1..Len(tx.inputs) :
          tx.inputs[j].outpoint \in DOMAIN store
             => Authorizes(tx, j, store[tx.inputs[j].outpoint].pubkey)

RECURSIVE SumOutputsBefore(_, _)
SumOutputsBefore(tx, j) ==
    IF j <= 1 THEN 0 ELSE tx.outputs[j - 1].value + SumOutputsBefore(tx, j - 1)

\* The outputs before the first output of value 0 pass their own checks:
\* their keys are absent and their values sum within the Value type.
OutputsBeforeZeroPass(tx, store) ==
    \A j \in 1..Len(tx.outputs) :
       (\A i \in 1..j : tx.outputs[i].value > 0)
          => /\ hash_of_tx(tx, j - 1) \notin DOMAIN store
             /\ SumOutputsBefore(tx, j + 1) <= MaxValue

\* C15 as stated: spend rejects every such transaction with an output of
\* value 0 with "Output value must be nonzero" and leaves the store.
C15_ZeroOutputReason ==
    (SpendReturned /\ WellFormedInputs(call.tx, pre_store)
        /\ ContainsZeroOutput(call.tx))
        => /\ result = "Output value must be nonzero"
           /\ UtxoStore = pre_store

\* C15 as amended: it does so when the values of the present inputs sum
\* within the Value type and the outputs before the first zero output pass
\* their checks; in every case the transaction is rejected and the store
\* is unchanged.
C15_ZeroOutputRejected ==
    (SpendReturned /\ WellFormedInputs(call.tx, pre_store)
        /\ ContainsZeroOutput(call.tx))
        => /\ result # "Ok"
           /\ UtxoStore = pre_store
           /\ RewardTotal = pre_reward
           /\ (/\ SumPresentInputs(call.tx, pre_store, 1) <= MaxValue
               /\ OutputsBeforeZeroPass(call.tx, pre_store))
                 => result = "Output value must be nonzero"

C15_Witness ==
    /\ SpendReturned
    /\ WellFormedInputs(call.tx, pre_store)
    /\ ContainsZeroOutput(call.tx)
    /\ Len(call.tx.inputs) = 2
    /\ InputKeys(call.tx) \cap DOMAIN pre_store # {}
    /\ MissingInputs(call.tx, pre_store) # {}
    /\ result = "Output value must be nonzero"

\* The transaction with its witnesses replaced, in input order, by ws.
WithWitnesses(tx, ws) ==
    MakeTx([j \in 1..Len(tx.inputs) |-> tx.inputs[j].outpoint], ws, tx.outputs)

ZeroWitnesses(tx) == [j \in 1..Len(tx.inputs) |-> ZeroSig]

\* Witness fields a transaction may carry instead of its own.
OtherWitnesses(tx) ==
    {ZeroSig, Sign("A", NoTxEnc, 0)}
        \cup {Sign(o, encode(WithWitnesses(tx, ZeroWitnesses(tx))), n) :
                 o \in Owners, n \in 0..1}

\* C16: for the transaction of every call, the canonical form is the same
\* whatever witnesses its inputs carry, the canonical form of the
\* witness-zeroed transaction is its plain encoding, and a signature over
\* that encoding verifies against the canonical form of the transaction
\* into which it has been written.
C16_CanonicalFormIgnoresWitnesses ==
    (pc # "idle" /\ call.op \in {"spend", "validate_transaction"})
        => LET tx == call.tx
               zeroed == WithWitnesses(tx, ZeroWitnesses(tx))
           IN  /\ \A ws \in SeqsUpTo(OtherWitnesses(tx), Len(tx.inputs)) :
                     Len(ws) = Len(tx.inputs)
                        => get_simple_transaction(WithWitnesses(tx, ws))
                              = get_simple_transaction(tx)
               /\ get_simple_transaction(zeroed) = encode(zeroed)
               /\ \A j \in 1..Len(tx.inputs) : \A o \in Owners :
                     LET sig == Sign(o, encode(zeroed), 0)
                         signed == [tx EXCEPT !.inputs[j].sigscript = sig]
                     IN  sr25519_verify(sig, get_simple_transaction(signed), o)

C16_Witness ==
    /\ SpendReturned
    /\ result = "Ok"
    /\ Len(call.tx.inputs) = 2
    /\ \A j \in 1..2 : call.tx.inputs[j].sigscript # ZeroSig
    /\ call.tx.inputs[1].sigscript # call.tx.inputs[2].sigscript
    /\ get_simple_transaction(call.tx) # encode(call.tx)

RECURSIVE SumOf(_)
SumOf(args) == IF args = <<>> THEN 0 ELSE args[1] + SumOf(Tail(args))

\* every partial sum of args, taken from the left, is an i32
RECURSIVE SumsStayInRange(_, _)
SumsStayInRange(args, acc) ==
    \/ args = <<>>
    \/ /\ ~add_i32(acc, args[1]).overflow
       /\ SumsStayInRange(Tail(args), acc + args[1])

\* inc_mine leaves the shared value and the other callers' values, and inc
\* leaves every per-caller value.
IncrementerFrame ==
    /\ inc_call.op = "inc_mine"
          => /\ get = pre_value
             /\ \A c \in Callers \ {inc_call.caller} :
                   my_value_or_zero(my_value, c) = my_value_or_zero(pre_my_value, c)
    /\ inc_call.op = "inc" => my_value = pre_my_value

\* C17 as stated: get_mine returns 0 for a caller that never called
\* inc_mine and otherwise the sum of that caller's inc_mine arguments, and
\* the frame holds.
C17_GetMineIsSum ==
    /\ \A c \in Callers : get_mine(c) = SumOf(mine_log[c])
    /\ inc_call.op = "get_mine" => inc_ret.val = SumOf(mine_log[inc_call.caller])
    /\ IncrementerFrame

\* C17 as amended: the same for every caller whose running sum has stayed
\* within i32; the frame holds without that condition.
C17_GetMineIsSumInRange ==
    /\ \A c \in Callers :
          SumsStayInRange(mine_log[c], 0) => get_mine(c) = SumOf(mine_log[c])
    /\ (inc_call.op = "get_mine" /\ SumsStayInRange(mine_log[inc_call.caller], 0))
          => inc_ret.val = SumOf(mine_log[inc_call.caller])
    /\ IncrementerFrame

C17_Witness ==
    /\ inc_call.op = "get_mine"
    /\ inc_call.caller = "alice"
    /\ Len(mine_log["alice"]) = 2
    /\ mine_log["bob"] # <<>>
    /\ \A c \in Callers : SumsStayInRange(mine_log[c], 0)
    /\ inc_ret.val = SumOf(mine_log["alice"])
    /\ inc_ret.val # 0
    /\ get_mine("bob") # get_mine("alice")
    /\ get # get_mine("alice")

\* the sum of the values of the entries of a store
RECURSIVE StoreSum(_)
StoreSum(store) ==
    IF DOMAIN store = {} THEN 0
    ELSE LET k == CHOOSE x \in DOMAIN store : TRUE
         IN  store[k].value + StoreSum([x \in DOMAIN store \ {k} |-> store[x]])

\* C18: the values in the store plus the reward pool never exceed the
\* values in the store at genesis, and no spend increases their sum.
C18_NoValueCreation ==
    /\ StoreSum(UtxoStore) + RewardTotal <= StoreSum(genesis)
    /\ SpendReturned
          => StoreSum(UtxoStore) + RewardTotal <= StoreSum(pre_store) + pre_reward

\* C19: the inputs of every transaction that spend accepts name pairwise
\* distinct outpoints, so a stored value is counted at most once.
C19_DistinctOutpoints ==
    (SpendReturned /\ result = "Ok")
        => /\ \A i, j \in 1..Len(call.tx.inputs) :
                 i # j => call.tx.inputs[i].outpoint # call.tx.inputs[j].outpoint
           /\ SumInputs(call.tx, pre_store, 1)
                 = StoreSum([k \in InputKeys(call.tx) \cap DOMAIN pre_store |-> pre_store[k]])

====
